---- MODULE Spec2Model ----
(***************************************************************************)
(* TableCellPropertiesUI (table/tablecellpropertiesui).                    *)
(*                                                                         *)
(* The plugin's handlers run to completion on the UI event loop, so each   *)
(* handler is one action.  A handler is written as a function from the     *)
(* state record before it to the state record after it, which lets the     *)
(* nested calls of the code (show -> fill -> view.set -> change listener   *)
(* -> editor.execute) compose in the order the code makes them.            *)
(*                                                                         *)
(* Strings that the code takes apart (property and command names) are      *)
(* sequences of one-character strings.                                     *)
(***************************************************************************)
EXTENDS Integers, Sequences, FiniteSets, TLC

\* ------------------------------------------------------------------ bounds
\* Batches editor.model.createBatch() may hand out in one run.
MaxBatch == 2
\* Changes of form fields by the user in one run.
MaxChanges == 2
\* Items of an array handed to toArray().
MaxArrayLen == 3

\* ------------------------------------------------------------ string data
\* this._batch = null
NoBatch == 0

DEFAULT_BORDER_STYLE == "none"
DEFAULT_HORIZONTAL_ALIGNMENT == "left"
DEFAULT_VERTICAL_ALIGNMENT == "middle"

borderStyle == <<"b","o","r","d","e","r","S","t","y","l","e">>
borderColor == <<"b","o","r","d","e","r","C","o","l","o","r">>
borderWidth == <<"b","o","r","d","e","r","W","i","d","t","h">>
padding == <<"p","a","d","d","i","n","g">>
backgroundColor == <<"b","a","c","k","g","r","o","u","n","d","C","o","l","o","r">>
horizontalAlignment == <<"h","o","r","i","z","o","n","t","a","l","A","l","i","g","n","m","e","n","t">>
verticalAlignment == <<"v","e","r","t","i","c","a","l","A","l","i","g","n","m","e","n","t">>

CELL_PROPERTIES ==
    << borderStyle, borderColor, borderWidth,
       padding, backgroundColor,
       horizontalAlignment, verticalAlignment >>

\* CELL_PROPERTIES.includes( propertyName )
includes(arr, x) == \E i \in 1..Len(arr) : arr[i] = x

TrackedProperties == { CELL_PROPERTIES[i] : i \in 1..Len(CELL_PROPERTIES) }

\* Observable properties of the form view that are not cell properties
\* ("they can belong to some internal logic").
isFocused == <<"i","s","F","o","c","u","s","e","d">>
BorderStyleCapitalised == <<"B","o","r","d","e","r","S","t","y","l","e">>
InternalProperties == { isFocused, BorderStyleCapitalised }

ViewProperties == TrackedProperties \cup InternalProperties

LowerCase ==
    <<"a","b","c","d","e","f","g","h","i","j","k","l","m",
      "n","o","p","q","r","s","t","u","v","w","x","y","z">>
UpperCase ==
    <<"A","B","C","D","E","F","G","H","I","J","K","L","M",
      "N","O","P","Q","R","S","T","U","V","W","X","Y","Z">>

\* String.prototype.toUpperCase on one character.
toUpperCase(c) ==
    IF \E i \in 1..Len(LowerCase) : LowerCase[i] = c
    THEN UpperCase[CHOOSE i \in 1..Len(LowerCase) : LowerCase[i] = c]
    ELSE c

\* String.prototype.slice( 1 )
slice1(str) == SubSeq(str, 2, Len(str))

tableCell == <<"t","a","b","l","e","C","e","l","l">>

\* A slip: the rest of the property name is dropped.
propertyNameToCommandNameFirstLetterOnly(propertyName) ==
    tableCell \o <<toUpperCase(propertyName[1])>>

\* A slip: the first letter is left as it is.
propertyNameToCommandNameNoUpperCase(propertyName) ==
    tableCell \o propertyName

\* `tableCell${ propertyName[ 0 ].toUpperCase() }${ propertyName.slice( 1 ) }`
propertyNameToCommandName(propertyName) ==
    tableCell \o <<toUpperCase(propertyName[1])>> \o slice1(propertyName)

CommandNames == { propertyNameToCommandName(p) : p \in TrackedProperties }

\* Values a command reports and a form field holds.  Undefined is the value
\* of a command whose attribute is not set on the selected cell.
Undefined == "<undefined>"
\* What the user enters in a field.
FieldValues == { "x" }
Values == { Undefined, "", "x",
            DEFAULT_BORDER_STYLE, DEFAULT_HORIZONTAL_ALIGNMENT,
            DEFAULT_VERTICAL_ALIGNMENT }

\* !value
isFalsy(value) == value \in { Undefined, "" }

\* The value the form holds for a property before any fill.
DefaultOf(propertyName) ==
    IF propertyName = borderStyle THEN DEFAULT_BORDER_STYLE
    ELSE IF propertyName = horizontalAlignment THEN DEFAULT_HORIZONTAL_ALIGNMENT
    ELSE IF propertyName = verticalAlignment THEN DEFAULT_VERTICAL_ALIGNMENT
    ELSE ""

\* The views the contextual balloon can hold: this.view and the view of
\* some other plugin that shares the balloon.
FormView == "form"
OtherView == "other"
NoView == "none"

\* ------------------------------------------------------------------ state
VARIABLES
    balloon,          \* this._balloon: the stack of views it holds, the last one visible
    _batch,           \* this._batch
    batchesCreated,   \* how many batches editor.model.createBatch() has handed out
    form,             \* this.view: the value of each observable property
    cmdValue,         \* editor.commands.get( name ).value, per command name
    preEdit,          \* the command values when the newest batch was created
    updateListening,  \* the editor.ui 'update' listener of this plugin is registered
    tableSelected,    \* getTableWidgetAncestor( viewDocument.selection ) is not null
    trace,            \* the calls the last handler made on its collaborators, in order
    lastEvent,        \* the event the last handler ran for
    attachBatch,      \* the batch created by the _showView() that added the form
    ended,            \* the batches that were current when a _hideView() removed the form
    fieldChanges,     \* changes of form fields by the user so far
    nChanges,         \* user changes of cell-property fields since the form was added
    nExec,            \* cell-property command executions since the form was added
    toArrayInput,     \* the argument list of a call toArray( x ) or toArray()
    toArrayFirst,     \* what toArray( x ) returned, once it was called
    toArraySecond,    \* what toArray( toArray( x ) ) returned, once it was called
    arraysCreated     \* how many arrays exist; an array is known by its number

toArrayVars == << toArrayInput, toArrayFirst, toArraySecond, arraysCreated >>

pluginVars == << balloon, _batch, batchesCreated, form, cmdValue, preEdit,
                 updateListening, tableSelected, trace, lastEvent, attachBatch,
                 ended, fieldChanges, nChanges, nExec >>

vars == << pluginVars, toArrayVars >>

\* The state as one record, for the handlers below.
Cur ==
    [ balloon |-> balloon, _batch |-> _batch, batchesCreated |-> batchesCreated,
      form |-> form, cmdValue |-> cmdValue, preEdit |-> preEdit,
      updateListening |-> updateListening, tableSelected |-> tableSelected,
      trace |-> trace, lastEvent |-> lastEvent, attachBatch |-> attachBatch,
      ended |-> ended, fieldChanges |-> fieldChanges, nChanges |-> nChanges,
      nExec |-> nExec ]

Commit(s) ==
    /\ balloon' = s.balloon
    /\ _batch' = s._batch
    /\ batchesCreated' = s.batchesCreated
    /\ form' = s.form
    /\ cmdValue' = s.cmdValue
    /\ preEdit' = s.preEdit
    /\ updateListening' = s.updateListening
    /\ tableSelected' = s.tableSelected
    /\ trace' = s.trace
    /\ lastEvent' = s.lastEvent
    /\ attachBatch' = s.attachBatch
    /\ ended' = s.ended
    /\ fieldChanges' = s.fieldChanges
    /\ nChanges' = s.nChanges
    /\ nExec' = s.nExec
    /\ UNCHANGED toArrayVars

\* An event: what happened ("environment" for a change made outside the plugin),
\* and for a field change the property and its new value.
Event(op, propertyName, value) == [ op |-> op, prop |-> propertyName, value |-> value ]

\* A call on a collaborator.  name, value and batch are <<>>, "" and NoBatch
\* for the calls that take none.
Call(op, name, value, b) == [ op |-> op, name |-> name, value |-> value, batch |-> b ]
SimpleCall(op) == Call(op, <<>>, "", NoBatch)

\* A handler starts: the trace of the previous handler is dropped.
Begin(s, ev) == [ s EXCEPT !.trace = <<>>, !.lastEvent = ev ]

log(s, c) == [ s EXCEPT !.trace = Append(@, c) ]

\* ---------------------------------------------------------- collaborators
\* this._balloon.visibleView
visibleView(s) == IF s.balloon = <<>> THEN NoView ELSE s.balloon[Len(s.balloon)]

\* this._balloon.hasView( view )
hasView(s, view) == \E i \in 1..Len(s.balloon) : s.balloon[i] = view

\* this._balloon.add( { view, position } ): the view goes on top and is shown.
balloonAdd(s, view) ==
    log([ s EXCEPT !.balloon = Append(@, view) ], SimpleCall("balloon.add"))

\* this._balloon.remove( view ): the view below, if any, becomes the visible one.
balloonRemove(s, view) ==
    log([ s EXCEPT !.balloon = SelectSeq(@, LAMBDA v : v # view) ],
        SimpleCall("balloon.remove"))

\* editor.model.createBatch(): a token never handed out before.  The edits
\* grouped in it are those made from now on.
createBatch(s) ==
    log([ s EXCEPT !.batchesCreated = @ + 1, !.preEdit = s.cmdValue ],
        SimpleCall("createBatch"))

\* editor.execute( commandName, { value, batch } ): the command takes the value.
execute(s, commandName, value, b) ==
    log([ s EXCEPT !.cmdValue[commandName] = value, !.nExec = @ + 1 ],
        Call("execute", commandName, value, b))

\* editor.execute( 'undo', batch ): the edits grouped in the batch are reverted.
\* Batches are created one after the other and only the newest is written to,
\* so reverting the newest restores the values it started from; an older batch
\* was either reverted already or is left applied.
undo(s, b) ==
    log(IF b # NoBatch /\ b = s.batchesCreated
        THEN [ s EXCEPT !.cmdValue = s.preEdit ]
        ELSE s,
        Call("undo", <<>>, "", b))

\* ----------------------------------------------------------------- plugin
\* get _isViewVisible()
isViewVisible(s) == visibleView(s) = FormView

\* get _isViewInBalloon()
isViewInBalloon(s) == hasView(s, FormView)

\* A slip: the listener does not filter the property names.
changeListenerUnfiltered(s, propertyName, newValue) ==
    execute(s, propertyNameToCommandName(propertyName), newValue, s._batch)

\* The 'change' listener of _startRespondingToChangesInView().
changeListener(s, propertyName, newValue) ==
    IF ~includes(CELL_PROPERTIES, propertyName)
    THEN s
    ELSE execute(s, propertyNameToCommandName(propertyName), newValue, s._batch)

\* view.set( name, value ): a property whose value changes fires 'change',
\* which runs the listener before set() returns.
viewSetProperty(s, propertyName, value) ==
    IF s.form[propertyName] = value
    THEN s
    ELSE changeListener([ s EXCEPT !.form[propertyName] = value ], propertyName, value)

\* view.set( data ): one set per key of data, in the order the keys were added,
\* which is the order of CELL_PROPERTIES.
RECURSIVE viewSetFrom(_, _, _)
viewSetFrom(s, data, i) ==
    IF i > Len(CELL_PROPERTIES) THEN s
    ELSE viewSetFrom(viewSetProperty(s, CELL_PROPERTIES[i], data[CELL_PROPERTIES[i]]),
                     data, i + 1)

viewSet(s, data) == viewSetFrom(s, data, 1)

\* A slip: every property falls back to the empty string.
fillDataEmptyDefaults(s) ==
    [ propertyName \in TrackedProperties |->
        LET value == s.cmdValue[propertyNameToCommandName(propertyName)]
        IN  IF isFalsy(value) THEN "" ELSE value ]

\* The record _fillViewFormFromCommandValues() builds.
fillData(s) ==
    [ propertyName \in TrackedProperties |->
        LET value == s.cmdValue[propertyNameToCommandName(propertyName)]
        IN  IF isFalsy(value)
            THEN IF propertyName = borderStyle THEN DEFAULT_BORDER_STYLE
                 ELSE IF propertyName = horizontalAlignment
                      THEN DEFAULT_HORIZONTAL_ALIGNMENT
                 ELSE IF propertyName = verticalAlignment
                      THEN DEFAULT_VERTICAL_ALIGNMENT
                 ELSE ""
            ELSE value ]

\* _fillViewFormFromCommandValues()
fillViewFormFromCommandValues(s) == viewSet(s, fillData(s))

\* A slip: no batch is created, this._batch keeps the value it had.
showViewKeepBatch(s) ==
    IF isViewVisible(s)
    THEN s
    ELSE LET added == ~isViewInBalloon(s)
             s1 == IF added THEN balloonAdd(s, FormView) ELSE s
             s4 == IF added
                   THEN [ s1 EXCEPT !.attachBatch = s1._batch,
                                    !.nChanges = 0, !.nExec = 0 ]
                   ELSE s1
             s5 == fillViewFormFromCommandValues(s4)
         IN  log(s5, SimpleCall("view.focus"))

\* A slip: the form is added whether or not the balloon has it.
showViewAlwaysAdds(s) ==
    IF isViewVisible(s)
    THEN s
    ELSE LET s1 == balloonAdd(s, FormView)
             s2 == createBatch(s1)
             s3 == [ s2 EXCEPT !._batch = s2.batchesCreated,
                               !.attachBatch = s2.batchesCreated,
                               !.nChanges = 0, !.nExec = 0 ]
             s4 == fillViewFormFromCommandValues(s3)
         IN  log(s4, SimpleCall("view.focus"))

\* _showView()
showView(s) ==
    IF isViewVisible(s)
    THEN s
    ELSE LET added == ~isViewInBalloon(s)
             s1 == IF added THEN balloonAdd(s, FormView) ELSE s
             s2 == createBatch(s1)
             s3 == [ s2 EXCEPT !._batch = s2.batchesCreated ]
             s4 == IF added
                   THEN [ s3 EXCEPT !.attachBatch = s3._batch,
                                    !.nChanges = 0, !.nExec = 0 ]
                   ELSE s3
             s5 == fillViewFormFromCommandValues(s4)
         IN  log(s5, SimpleCall("view.focus"))

\* A slip: the check that the form is in the balloon comes only before the
\* removal, not first.
hideViewUnguarded(s) ==
    LET s1 == [ s EXCEPT !.updateListening = FALSE ]
        s2 == log(s1, SimpleCall("editing.view.focus"))
    IN  IF isViewInBalloon(s2)
        THEN LET s3 == log(s2, SimpleCall("saveButtonView.focus"))
                 s4 == balloonRemove(s3, FormView)
                 s5 == [ s4 EXCEPT !.ended = @ \cup { s4._batch } ]
             IN  log(s5, SimpleCall("editing.view.focus"))
        ELSE s2

\* A slip: the form is removed before the editing view gets the focus.
hideViewRemoveFirst(s) ==
    IF ~isViewInBalloon(s)
    THEN s
    ELSE LET s1 == [ s EXCEPT !.updateListening = FALSE ]
             s2 == log(s1, SimpleCall("saveButtonView.focus"))
             s3 == balloonRemove(s2, FormView)
             s4 == [ s3 EXCEPT !.ended = @ \cup { s3._batch } ]
             s5 == log(s4, SimpleCall("editing.view.focus"))
         IN  log(s5, SimpleCall("editing.view.focus"))

\* _hideView().  stopListening( editor.ui, 'update' ) removes the listener
\* _createPropertiesView() registered; the plugin listens to no
\* 'change:visibleView' of the balloon, so that stopListening removes nothing.
hideView(s) ==
    IF ~isViewInBalloon(s)
    THEN s
    ELSE LET s1 == [ s EXCEPT !.updateListening = FALSE ]
             s2 == log(s1, SimpleCall("editing.view.focus"))
         IN  IF isViewInBalloon(s2)
             THEN LET s3 == log(s2, SimpleCall("saveButtonView.focus"))
                      s4 == balloonRemove(s3, FormView)
                      s5 == [ s4 EXCEPT !.ended = @ \cup { s4._batch } ]
                  IN  log(s5, SimpleCall("editing.view.focus"))
             ELSE s2

\* A slip: cancel only hides the form.
cancelListenerHideOnly(s) == hideView(s)

\* this.listenTo( view, 'cancel', ... )
cancelListener(s) == hideView(undo(s, s._batch))

\* A slip: submit undoes the batch as cancel does.
submitListenerUndo(s) == cancelListener(s)

\* this.listenTo( view, 'submit', ... )
submitListener(s) == hideView(s)

\* A slip: Esc undoes the batch as cancel does.
escKeystrokeUndo(s) == cancelListener(s)

\* view.keystrokes.set( 'Esc', ... ); cancel() stops the key event and changes
\* no state.
escKeystroke(s) == hideView(s)

\* this.listenTo( editor.ui, 'update', ... ); nothing runs once the listener
\* has been removed.
updateListener(s) ==
    IF ~s.updateListening THEN s
    ELSE IF ~s.tableSelected THEN hideView(s)
    ELSE IF isViewVisible(s) THEN log(s, SimpleCall("repositionContextualBalloon"))
    ELSE s

\* A slip: the handler is active only while the balloon shows the form.
clickOutsideWhenVisible(s) == IF isViewVisible(s) THEN hideView(s) ELSE s

\* clickOutsideHandler( { activator: () => this._isViewInBalloon, callback } )
clickOutside(s) == IF isViewInBalloon(s) THEN hideView(s) ELSE s

\* ---------------------------------------------------------------- toArray
\* JavaScript values: an array (known by its number, so that an array and a
\* copy of it differ), undefined, or any other value.
JSArray(ref, items) == [ kind |-> "array", ref |-> ref, items |-> items, v |-> "" ]
JSOther(v) == [ kind |-> "other", ref |-> NoBatch, items |-> <<>>, v |-> v ]
JSUndefined == [ kind |-> "undefined", ref |-> NoBatch, items |-> <<>>, v |-> "" ]

\* An argument list: toArray() or toArray( value ).
NoArgument == [ supplied |-> FALSE, value |-> JSUndefined ]
Argument(value) == [ supplied |-> TRUE, value |-> value ]

\* No call was made yet.
NoResult == [ kind |-> "none", ref |-> NoBatch, items |-> <<>>, v |-> "" ]

\* Array.isArray( data )
isArray(data) == data.kind = "array"

\* A slip: the value is wrapped whatever it is.
toArrayAlwaysWraps(arguments, newRef) ==
    LET data == IF ~arguments.supplied \/ arguments.value.kind = "undefined"
                THEN JSArray(newRef, <<>>)
                ELSE arguments.value
    IN  JSArray(newRef, <<data>>)

\* toArray( data = [] ): the default, a new empty array, stands in for a
\* missing argument and for undefined.  newRef numbers the array the call
\* creates, if it creates one.
toArray(arguments, newRef) ==
    LET data == IF ~arguments.supplied \/ arguments.value.kind = "undefined"
                THEN JSArray(newRef, <<>>)
                ELSE arguments.value
    IN  IF isArray(data) THEN data ELSE JSArray(newRef, <<data>>)

\* The values toArray() is called with here.
OtherValues == { JSOther(v) : v \in { "a", "0", "null" } }

RECURSIVE ItemsUpTo(_)
ItemsUpTo(n) ==
    IF n = 0 THEN { <<>> }
    ELSE ItemsUpTo(n - 1) \cup
         { Append(items, x) : items \in ItemsUpTo(n - 1), x \in OtherValues }

ToArrayInputs ==
    { NoArgument, Argument(JSUndefined) }
      \cup { Argument(x) : x \in OtherValues }
      \cup { Argument(JSArray(1, items)) : items \in ItemsUpTo(MaxArrayLen) }

\* ------------------------------------------------------- the state machine
NoEvent == Event("init", <<>>, "")

\* The cell the selection is in when the editor starts: its border style and
\* border width are set, its padding is the empty string, and the other
\* properties are not set.
InitialCommandValues ==
    [ c \in CommandNames |->
        IF c \in { propertyNameToCommandName(borderStyle),
                   propertyNameToCommandName(borderWidth) } THEN "x"
        ELSE IF c = propertyNameToCommandName(padding) THEN ""
        ELSE Undefined ]

\* The plugin after init().
PluginInit ==
    /\ balloon = <<>>
    /\ _batch = NoBatch
    /\ batchesCreated = 0
    /\ form = [ propertyName \in ViewProperties |-> DefaultOf(propertyName) ]
    /\ cmdValue = InitialCommandValues
    /\ preEdit = cmdValue
    /\ updateListening = TRUE
    /\ tableSelected = TRUE
    /\ trace = <<>>
    /\ lastEvent = NoEvent
    /\ attachBatch = NoBatch
    /\ ended = {}
    /\ fieldChanges = 0
    /\ nChanges = 0
    /\ nExec = 0

\* The state after init(); toArray() is not called.
Init ==
    /\ PluginInit
    /\ toArrayInput = NoArgument
    /\ toArrayFirst = NoResult
    /\ toArraySecond = NoResult
    /\ arraysCreated = 0

\* The form can be clicked and typed in only while the balloon shows it.
FormInteractive == isViewVisible(Cur)

\* The 'tableCellProperties' button fires 'execute'.
ButtonExecute ==
    /\ isViewVisible(Cur) \/ batchesCreated < MaxBatch
    /\ Commit(showView(Begin(Cur, Event("show", <<>>, ""))))

\* The form fires 'submit'.
Submit ==
    /\ FormInteractive
    /\ Commit(submitListener(Begin(Cur, Event("submit", <<>>, ""))))

\* The form fires 'cancel'.
Cancel ==
    /\ FormInteractive
    /\ Commit(cancelListener(Begin(Cur, Event("cancel", <<>>, ""))))

\* Esc is pressed while the form has the focus.
EscKey ==
    /\ FormInteractive
    /\ Commit(escKeystroke(Begin(Cur, Event("esc", <<>>, ""))))

\* The user changes a field of the form, or the form changes one of its
\* internal properties.
FieldChanged ==
    /\ FormInteractive
    /\ \E propertyName \in ViewProperties, newValue \in FieldValues :
         /\ form[propertyName] # newValue
         /\ fieldChanges < MaxChanges
         /\ LET s0 == [ Begin(Cur, Event("change", propertyName, newValue))
                          EXCEPT !.fieldChanges = @ + 1 ]
                s1 == IF propertyName \in TrackedProperties
                      THEN [ s0 EXCEPT !.nChanges = @ + 1 ]
                      ELSE s0
            IN  Commit(viewSetProperty(s1, propertyName, newValue))

\* editor.ui fires 'update', with the selection in a table or not.
UiUpdate ==
    /\ tableSelected \in BOOLEAN
    /\ Commit(updateListener(Begin(Cur, Event("update", <<>>, ""))))

\* The mouse is pressed outside the balloon panel, whatever the balloon holds.
ClickOutside ==
    /\ Len(balloon) >= 0
    /\ Commit(clickOutside(Begin(Cur, Event("clickOutside", <<>>, ""))))

\* The selection enters or leaves a table.
SelectionChange ==
    \E selected \in BOOLEAN \ { tableSelected } :
        Commit([ Begin(Cur, Event("environment", <<>>, ""))
                   EXCEPT !.tableSelected = selected ])

\* Another plugin adds its view to the balloon.
OtherViewAdd ==
    /\ ~hasView(Cur, OtherView)
    /\ Commit([ Begin(Cur, Event("environment", <<>>, ""))
                  EXCEPT !.balloon = Append(@, OtherView) ])

\* The other plugin removes its view from the balloon.
OtherViewRemove ==
    /\ hasView(Cur, OtherView)
    /\ Commit([ Begin(Cur, Event("environment", <<>>, ""))
                  EXCEPT !.balloon = SelectSeq(@, LAMBDA v : v # OtherView) ])

Next ==
    \/ ButtonExecute
    \/ Submit
    \/ Cancel
    \/ EscKey
    \/ FieldChanged
    \/ UiUpdate
    \/ ClickOutside
    \/ SelectionChange
    \/ OtherViewAdd
    \/ OtherViewRemove

Spec == Init /\ [][Next]_vars

\* ------------------------------------------------- toArray() on its inputs
\* Any argument list; an array handed in exists already.
ToArrayInit ==
    /\ PluginInit
    /\ toArrayInput \in ToArrayInputs
    /\ toArrayFirst = NoResult
    /\ toArraySecond = NoResult
    /\ arraysCreated = IF isArray(toArrayInput.value) THEN 1 ELSE 0

\* The arrays that exist once a call has returned: the call may have made one.
arraysAfter(returned) ==
    IF returned.ref > arraysCreated THEN returned.ref ELSE arraysCreated

\* toArray( x ), or toArray() with no argument.
CallToArray ==
    /\ toArrayFirst = NoResult
    /\ toArrayFirst' = toArray(toArrayInput, arraysCreated + 1)
    /\ arraysCreated' = arraysAfter(toArrayFirst')
    /\ UNCHANGED << pluginVars, toArrayInput, toArraySecond >>

\* toArray( toArray( x ) )
CallToArrayOnResult ==
    /\ toArrayFirst # NoResult
    /\ toArraySecond = NoResult
    /\ toArraySecond' = toArray(Argument(toArrayFirst), arraysCreated + 1)
    /\ arraysCreated' = arraysAfter(toArraySecond')
    /\ UNCHANGED << pluginVars, toArrayInput, toArrayFirst >>

ToArrayNext ==
    \/ CallToArray
    \/ CallToArrayOnResult

SpecToArray == ToArrayInit /\ [][ToArrayNext]_vars

\* ----------------------------------------------------------------- claims
\* The calls of one kind in the trace of the last handler.
CallsOf(op) == SelectSeq(trace, LAMBDA c : c.op = op)

\* The calls a _hideView() of a form that is in the balloon makes.
HideCalls ==
    << SimpleCall("editing.view.focus"), SimpleCall("saveButtonView.focus"),
       SimpleCall("balloon.remove"), SimpleCall("editing.view.focus") >>

\* The command names, written out.
tableCellBorderStyle ==
    <<"t","a","b","l","e","C","e","l","l","B","o","r","d","e","r","S","t","y","l","e">>
tableCellBorderColor ==
    <<"t","a","b","l","e","C","e","l","l","B","o","r","d","e","r","C","o","l","o","r">>
tableCellBorderWidth ==
    <<"t","a","b","l","e","C","e","l","l","B","o","r","d","e","r","W","i","d","t","h">>
tableCellPadding ==
    <<"t","a","b","l","e","C","e","l","l","P","a","d","d","i","n","g">>
tableCellBackgroundColor ==
    <<"t","a","b","l","e","C","e","l","l",
      "B","a","c","k","g","r","o","u","n","d","C","o","l","o","r">>
tableCellHorizontalAlignment ==
    <<"t","a","b","l","e","C","e","l","l",
      "H","o","r","i","z","o","n","t","a","l","A","l","i","g","n","m","e","n","t">>
tableCellVerticalAlignment ==
    <<"t","a","b","l","e","C","e","l","l",
      "V","e","r","t","i","c","a","l","A","l","i","g","n","m","e","n","t">>

ExpectedCommandName(propertyName) ==
    CASE propertyName = borderStyle -> tableCellBorderStyle
      [] propertyName = borderColor -> tableCellBorderColor
      [] propertyName = borderWidth -> tableCellBorderWidth
      [] propertyName = padding -> tableCellPadding
      [] propertyName = backgroundColor -> tableCellBackgroundColor
      [] propertyName = horizontalAlignment -> tableCellHorizontalAlignment
      [] propertyName = verticalAlignment -> tableCellVerticalAlignment

\* C1: the form's cancel action issues exactly one undo call, whose argument
\* is the batch the most recent createBatch() of a _showView() handed out, and
\* leaves the form out of the balloon, however many fields were changed.
C1_CancelUndoesOnce ==
    lastEvent.op = "cancel" =>
        /\ batchesCreated # NoBatch
        /\ CallsOf("undo") = << Call("undo", <<>>, "", batchesCreated) >>
        /\ ~isViewInBalloon(Cur)

\* A cancel after MaxChanges changed cell-property fields.
C1_Witness ==
    /\ lastEvent.op = "cancel"
    /\ nChanges = MaxChanges
    /\ Len(CallsOf("undo")) = 1
    /\ ~isViewInBalloon(Cur)

\* C2, as claimed: Esc while the form is focused undoes the current batch and
\* hides the form.
C2_EscUndoes ==
    lastEvent.op = "esc" =>
        /\ CallsOf("undo") = << Call("undo", <<>>, "", _batch) >>
        /\ ~isViewInBalloon(Cur)

\* C2, amended: Esc while the form is focused hides the form and issues no
\* undo call: it makes the calls of _hideView() and no other.
C2_EscHidesWithoutUndo ==
    lastEvent.op = "esc" =>
        /\ trace = HideCalls
        /\ CallsOf("undo") = <<>>
        /\ ~isViewInBalloon(Cur)

\* Esc after a changed field: the edit stays applied.
C2_Witness ==
    /\ lastEvent.op = "esc"
    /\ nChanges >= 1
    /\ cmdValue # preEdit
    /\ ~isViewInBalloon(Cur)

\* C3: every command execution made while the form is in the balloon carries
\* the batch created by the _showView() that added the form.
C3_OneBatchPerSession ==
    \A i \in 1..Len(trace) :
        trace[i].op = "execute" =>
            trace[i].batch # NoBatch /\ trace[i].batch = attachBatch

\* C4: _showView() executes no command, and at a cancel the commands executed
\* since the form was added are as many as the fields the user changed.
C4_OneExecutionPerChange ==
    /\ lastEvent.op = "show" => CallsOf("execute") = <<>>
    /\ lastEvent.op = "cancel" => nExec = nChanges

\* C5: the form's submit action leaves the form out of the balloon and makes
\* the calls of _hideView() and no other: no undo call.
C5_SubmitKeepsBatch ==
    lastEvent.op = "submit" =>
        /\ trace = HideCalls
        /\ CallsOf("undo") = <<>>
        /\ ~isViewInBalloon(Cur)

\* A submit after a changed field: the edit stays applied.
C5_Witness ==
    /\ lastEvent.op = "submit"
    /\ nChanges >= 1
    /\ cmdValue # preEdit
    /\ ~isViewInBalloon(Cur)

\* C6: in every reachable state a _showView() right after a _showView() makes
\* no call and changes nothing, and the form is in the balloon.
C6_ShowTwiceIsShowOnce ==
    LET ev == Event("show", <<>>, "")
        once == showView(Begin(Cur, ev))
        twice == showView(Begin(once, ev))
    IN  /\ isViewInBalloon(once)
        /\ twice.trace = <<>>
        /\ [ twice EXCEPT !.trace = once.trace ] = once

\* C7: an 'update' of editor.ui while no table is selected leaves the form
\* out of the balloon.
C7_DeselectHides ==
    (lastEvent.op = "update" /\ ~tableSelected) => ~isViewInBalloon(Cur)

\* C8: every execute and undo call a handler makes carries a batch, and not
\* one that was current when an earlier _hideView() removed the form; the
\* form is in the balloon when the handler starts, or the handler is the
\* _showView() that adds it.
C8_NoStaleBatch ==
    [][ \A i \in 1..Len(trace') :
          trace'[i].op \in { "execute", "undo" } =>
              /\ trace'[i].batch # NoBatch
              /\ trace'[i].batch \notin ended
              /\ isViewInBalloon(Cur) \/ lastEvent'.op = "show" ]_vars

\* A cancel of a later session, after an execution in it.
C8_Witness ==
    /\ lastEvent.op = "cancel"
    /\ Cardinality(ended) >= 2
    /\ nExec >= 1
    /\ Len(CallsOf("undo")) = 1

\* C9: a change of a cell property makes exactly one call: the execution of
\* the command named 'tableCell' + the capitalised property name, with the
\* new value and this._batch, which is a batch.
C9_ChangeExecutesCommand ==
    (lastEvent.op = "change" /\ lastEvent.prop \in TrackedProperties) =>
        /\ _batch # NoBatch
        /\ trace = << Call("execute", ExpectedCommandName(lastEvent.prop),
                           lastEvent.value, _batch) >>

\* A change of the padding field.
C9_Witness ==
    /\ lastEvent.op = "change"
    /\ lastEvent.prop = padding
    /\ form[padding] = "x"
    /\ Len(trace) = 1

\* C10: a change of a property that is not a cell property makes no call and
\* leaves this._batch, the balloon and the command values as they were.
C10_UntrackedChangeIgnored ==
    [][ (lastEvent'.op = "change" /\ lastEvent'.prop \notin TrackedProperties) =>
            /\ trace' = <<>>
            /\ UNCHANGED << _batch, balloon, cmdValue, preEdit >> ]_vars

\* A change of a form property whose name differs from a cell property's
\* only in the case of its first letter.
C10_Witness ==
    /\ lastEvent.op = "change"
    /\ lastEvent.prop = BorderStyleCapitalised
    /\ form[BorderStyleCapitalised] = "x"
    /\ trace = <<>>


\* The value the form is to receive for a property whose command reports
\* the given value.
ExpectedFillValue(propertyName, reported) ==
    IF reported \notin { Undefined, "" } THEN reported
    ELSE CASE propertyName = borderStyle -> "none"
           [] propertyName = horizontalAlignment -> "left"
           [] propertyName = verticalAlignment -> "middle"
           [] OTHER -> ""

C12_HideWhenHiddenIsNoOp ==
    [][ ( /\ lastEvent'.op = "update"
          /\ updateListening /\ ~tableSelected
          /\ ~isViewInBalloon(Cur) ) =>
            /\ trace' = <<>>
            /\ UNCHANGED << balloon, _batch, updateListening, form, cmdValue,
                            batchesCreated, ended >> ]_vars

\* An 'update' with no table selected and the form not in the balloon: the
\* listener, which is still registered, has called _hideView().
C12_Witness ==
    /\ lastEvent.op = "update"
    /\ updateListening /\ ~tableSelected
    /\ ~isViewInBalloon(Cur)
    /\ trace = <<>>


\* C13: every cell property has a command name, which names a command of the
\* registry, and no two cell properties have the same command name: the
\* seven properties have seven command names.
C13_CommandNamesInjective ==
    /\ \A p \in TrackedProperties :
          /\ propertyNameToCommandName(p) \in DOMAIN cmdValue
          /\ Len(propertyNameToCommandName(p)) = Len(tableCell) + Len(p)
    /\ \A p, q \in TrackedProperties :
          propertyNameToCommandName(p) = propertyNameToCommandName(q) => p = q
    /\ Cardinality({ propertyNameToCommandName(p) : p \in TrackedProperties })
          = Len(CELL_PROPERTIES)

\* A handler has executed the commands of two cell properties that share
\* their first letter, under two names.
C13_Witness ==
    \E i, j \in 1..Len(trace) :
        /\ trace[i].op = "execute" /\ trace[i].name = tableCellBorderStyle
        /\ trace[j].op = "execute" /\ trace[j].name = tableCellBorderWidth


\* What toArray() has to return for an argument list, as the claim words it:
\* undefined is a supplied value like any other.
IsNewArrayOf(returned, items) ==
    /\ isArray(returned)
    /\ returned.items = items
    /\ ~(isArray(toArrayInput.value) /\ returned.ref = toArrayInput.value.ref)

\* C14 as stated: toArray( x ) is x itself when x is an array, [ x ] when x
\* is any other supplied value, [] with no argument, and
\* toArray( toArray( x ) ) is toArray( x ).
C14_ToArrayWrapsEverySuppliedValue ==
    /\ toArrayFirst # NoResult =>
          CASE ~toArrayInput.supplied -> IsNewArrayOf(toArrayFirst, <<>>)
            [] toArrayInput.supplied /\ isArray(toArrayInput.value) ->
                   toArrayFirst = toArrayInput.value
            [] OTHER -> IsNewArrayOf(toArrayFirst, << toArrayInput.value >>)
    /\ toArraySecond # NoResult => toArraySecond = toArrayFirst

\* C14 amended: toArray( x ) is x itself when x is an array, [ x ] when x is
\* any other supplied value except undefined, the empty array when called
\* with undefined or with no argument, and toArray( toArray( x ) ) is
\* toArray( x ), the same array.
C14_ToArrayNormalises ==
    /\ toArrayFirst # NoResult =>
          CASE ~toArrayInput.supplied -> IsNewArrayOf(toArrayFirst, <<>>)
            [] toArrayInput.supplied /\ isArray(toArrayInput.value) ->
                   toArrayFirst = toArrayInput.value
            [] toArrayInput.supplied /\ toArrayInput.value = JSUndefined ->
                   IsNewArrayOf(toArrayFirst, <<>>)
            [] OTHER -> IsNewArrayOf(toArrayFirst, << toArrayInput.value >>)
    /\ toArraySecond # NoResult =>
          /\ toArraySecond = toArrayFirst
          /\ arraysCreated = toArrayFirst.ref

C14_Witness ==
    /\ toArrayInput = Argument(JSUndefined)
    /\ isArray(toArrayFirst)
    /\ toArrayFirst.items = <<>>
    /\ toArraySecond = toArrayFirst


\* C15: a hide of a form that is in the balloon gives the focus to the
\* editing view, then removes the form from the balloon, then gives the focus
\* to the editing view again; the form is never removed before the first of
\* the two focus calls.
C15_FocusBeforeAndAfterRemoval ==
    \A i \in 1..Len(trace) :
        trace[i].op = "balloon.remove" =>
            /\ \E j \in 1..(i - 1) : trace[j].op = "editing.view.focus"
            /\ \E k \in (i + 1)..Len(trace) : trace[k].op = "editing.view.focus"
            /\ Len(CallsOf("balloon.remove")) = 1
            /\ Len(CallsOf("editing.view.focus")) = 2
            /\ ~isViewInBalloon(Cur)

C15_Witness ==
    /\ lastEvent.op = "update"
    /\ ~tableSelected
    /\ trace = HideCalls
    /\ ~isViewInBalloon(Cur)

\* C16: a click outside the balloon panel while the form is in the balloon,
\* shown or covered, makes the calls of a hide and no undo call, and the
\* edits stay; while the form is not in the balloon the click makes no call
\* and changes nothing.
C16_ClickOutsideHidesWithoutUndo ==
    [][ lastEvent'.op = "clickOutside" =>
            IF isViewInBalloon(Cur)
            THEN /\ trace' = HideCalls
                 /\ ~(isViewInBalloon(Cur))'
                 /\ UNCHANGED << cmdValue, _batch, batchesCreated >>
            ELSE /\ trace' = <<>>
                 /\ UNCHANGED << balloon, _batch, batchesCreated, form, cmdValue,
                                 updateListening, ended >> ]_vars

C16_Witness ==
    /\ lastEvent.op = "clickOutside"
    /\ trace = HideCalls
    /\ CallsOf("undo") = <<>>
    /\ nExec >= 1
    /\ cmdValue # preEdit
    /\ ~isViewInBalloon(Cur)

\* C17: the balloon holds the form at most once, and a handler that calls
\* balloon.add for the form starts in a state where the balloon does not
\* have it.
C17_FormAddedOnlyWhenAbsent ==
    /\ [](Len(SelectSeq(balloon, LAMBDA view : view = FormView)) <= 1)
    /\ [][ CallsOf("balloon.add")' # <<>> =>
              /\ ~isViewInBalloon(Cur)
              /\ Len(CallsOf("balloon.add")') = 1 ]_vars

C17_Witness ==
    /\ lastEvent.op = "show"
    /\ trace # <<>>
    /\ CallsOf("balloon.add") = <<>>
    /\ balloon = << FormView, OtherView >>

====
